---------------------------- MODULE Spec2Model ----------------------------
(***************************************************************************)
(* A model of the imposition core of bookletMaker:                         *)
(*   parse_page_selection, calculate_booklet_order  (booklet_maker.py)     *)
(*   SpreadValidator.check_spread_alignment          (src/validators.py)   *)
(*   SmartBlanksService.calculate_smart_blanks (services/smart_blanks...)  *)
(* A selection text is a sequence of one-character strings, so that the    *)
(* parser is modelled by what it does to the characters.                   *)
(***************************************************************************)
EXTENDS Integers, Sequences, FiniteSets, TLC

VARIABLES
    pc,             \* where the request stands: start, parsed, planned, written,
                    \* checked, smart; raised when the parser let an exception out
    tokens,         \* the tokens the user typed (what selection_str was written from)
    selection_str,  \* the selection text handed to parse_page_selection
    total_pages,    \* number of pages of the source document
    pages,          \* the caller's list: the result of parse_page_selection
    num_signatures, \* argument of calculate_booklet_order
    reading_order,  \* argument of calculate_booklet_order
    signatures,     \* the plan returned by calculate_booklet_order
    front_cover,    \* argument of calculate_smart_blanks
    back_cover,     \* argument of calculate_smart_blanks
    spreads,        \* the spread pairs handed to the validator / the blank inserter
    results,        \* the list returned by check_spread_alignment
    smart,          \* the (pages, changes) pair returned by calculate_smart_blanks
    output,         \* the composed sheet sides generate_single_booklet writes
    ctor_args,      \* the arguments (a, b) of a call SpreadPair(a, b)
    spread_pair,    \* the fields of the SpreadPair object under construction
    temp_files,     \* BookletService._temp_files: the tracked temporary PDFs
    disk,           \* the temporary files that exist in the file system
    next_file,      \* the name the next temporary file gets
    returned,       \* the list a caller got from get_temp_files()
    cleanup_log     \* what the last cleanup() met, file by file

\* the state of a BookletService and of the file system around it
svc_vars == <<temp_files, disk, next_file, returned, cleanup_log>>

vars == <<pc, tokens, selection_str, total_pages, pages, num_signatures,
          reading_order, signatures, front_cover, back_cover, spreads,
          results, smart, output, ctor_args, spread_pair, svc_vars>>

(***************************************************************************)
(* Bounds of the model.                                                    *)
(***************************************************************************)
\* numbers written in the tokens of the parser's texts run over 0..MaxNum
MaxNum == 2
\* the source documents of the parser's texts have 0..MaxTotal pages
MaxTotal == 2
\* the parser's texts hold at most MaxTokens comma-separated tokens
MaxTokens == 2
\* the range selections "1-n" of the booklet requests have n in 0..MaxLen
MaxLen == 12
\* the free-form selections of the booklet requests have at most MaxShort entries
MaxShort == 3
\* ... over the pages 1..MaxPage of a MaxPage-page document
MaxPage == 2
\* calculate_booklet_order is asked for 1..MaxSig signatures
MaxSig == 3
\* covers and spread pairs are marked among the first MaxMark pages of the document
MaxMark == 5
\* SpreadPair(a, b) is called with a and b in -MaxArg..MaxArg
MaxArg == 5
\* BookletOptions is built with num_signatures from MaxExcess below the least
\* accepted value to MaxExcess above the greatest
MaxExcess == 3
\* ... for the selections "1-n", n in 0..MaxOptLen
MaxOptLen == 12
\* a BookletService converts at most MaxFiles CBZ files
MaxFiles == 3

(***************************************************************************)
(* Values.                                                                 *)
(***************************************************************************)
\* the "blank" marker of a page list; page numbers are the integers >= 1
Blank == -1
\* front_cover / back_cover None (falsy in `if front_cover and ...`)
NoCover == 0
\* the least and the greatest num_signatures BookletOptions accepts
MinSignatures == 1
MaxSignatures == 10

(***************************************************************************)
(* Python's str and list operations used by the code.                      *)
(***************************************************************************)
Digit == {"0", "1", "2", "3", "4", "5", "6", "7", "8", "9"}

DigitVal(c) ==
    CASE c = "0" -> 0 [] c = "1" -> 1 [] c = "2" -> 2 [] c = "3" -> 3
      [] c = "4" -> 4 [] c = "5" -> 5 [] c = "6" -> 6 [] c = "7" -> 7
      [] c = "8" -> 8 [] c = "9" -> 9

\* str.lower(), on the letters the texts of the model hold
LowerChar(c) ==
    CASE c = "B" -> "b" [] c = "L" -> "l" [] c = "A" -> "a"
      [] c = "N" -> "n" [] c = "K" -> "k" [] OTHER -> c

StrLower(s) == [i \in 1..Len(s) |-> LowerChar(s[i])]

RECURSIVE StripLeft(_)
StripLeft(s) ==
    IF s # <<>> /\ Head(s) = " " THEN StripLeft(Tail(s)) ELSE s

RECURSIVE StripRight(_)
StripRight(s) ==
    IF s # <<>> /\ s[Len(s)] = " " THEN StripRight(SubSeq(s, 1, Len(s) - 1)) ELSE s

\* str.strip()
StrStrip(s) == StripRight(StripLeft(s))

\* sep in s
StrContains(s, sep) == \E i \in 1..Len(s) : s[i] = sep

\* s.split(sep): the pieces between the separators, always at least one
RECURSIVE StrSplit(_, _)
StrSplit(s, sep) ==
    IF ~StrContains(s, sep) THEN <<s>>
    ELSE LET i == CHOOSE k \in 1..Len(s) :
                      s[k] = sep /\ \A j \in 1..(k - 1) : s[j] # sep
         IN  <<SubSeq(s, 1, i - 1)>> \o StrSplit(SubSeq(s, i + 1, Len(s)), sep)

RECURSIVE DigitsValue(_)
DigitsValue(s) ==
    IF s = <<>> THEN 0
    ELSE 10 * DigitsValue(SubSeq(s, 1, Len(s) - 1)) + DigitVal(s[Len(s)])

AllDigits(s) == s # <<>> /\ \A i \in 1..Len(s) : s[i] \in Digit

\* int(s) does not raise ValueError: blanks around, an optional sign, digits
IntOk(s) ==
    LET t == StrStrip(s)
    IN  \/ AllDigits(t)
        \/ t # <<>> /\ t[1] \in {"+", "-"} /\ AllDigits(Tail(t))

\* int(s), where IntOk(s)
IntOf(s) ==
    LET t == StrStrip(s)
    IN  IF t[1] = "-" THEN 0 - DigitsValue(Tail(t))
        ELSE IF t[1] = "+" THEN DigitsValue(Tail(t))
        ELSE DigitsValue(t)

PyMax(a, b) == IF a >= b THEN a ELSE b
PyMin(a, b) == IF a <= b THEN a ELSE b

\* list(range(start, stop))
PyRange(start, stop) ==
    IF stop <= start THEN <<>> ELSE [i \in 1..(stop - start) |-> start + i - 1]

(***************************************************************************)
(* parse_page_selection (booklet_maker.py 215-265).                        *)
(***************************************************************************)
\* ParseRange with range(start, end) for range(start, end + 1)
ParseRangeExclusive(part, total) ==
    LET pieces == StrSplit(part, "-")
    IN  IF Len(pieces) # 2 \/ ~IntOk(pieces[1]) \/ ~IntOk(pieces[2]) THEN <<>>
        ELSE LET start   == IntOf(pieces[1])
                 end     == IntOf(pieces[2])
                 adjust  == start < 1 \/ end > total
                 start2  == IF adjust THEN PyMax(1, start) ELSE start
                 end2    == IF adjust THEN PyMin(total, end) ELSE end
             IN  PyRange(start2, end2)

\* ParseRange without lines 246-249: the range is extended as it was typed
ParseRangeUnclamped(part, total) ==
    LET pieces == StrSplit(part, "-")
    IN  IF Len(pieces) # 2 \/ ~IntOk(pieces[1]) \/ ~IntOk(pieces[2]) THEN <<>>
        ELSE PyRange(IntOf(pieces[1]), IntOf(pieces[2]) + 1)

\* the elif '-' in part branch: what the try block extends result with
\* (nothing when the unpacking or an int() raises ValueError)
ParseRange(part, total) ==
    LET pieces == StrSplit(part, "-")
    IN  IF Len(pieces) # 2 \/ ~IntOk(pieces[1]) \/ ~IntOk(pieces[2]) THEN <<>>
        ELSE LET start   == IntOf(pieces[1])
                 end     == IntOf(pieces[2])
                 adjust  == start < 1 \/ end > total
                 start2  == IF adjust THEN PyMax(1, start) ELSE start
                 end2    == IF adjust THEN PyMin(total, end) ELSE end
             IN  PyRange(start2, end2 + 1)

\* ParseSingle that clamps an out-of-range page as the range branch does
ParseSingleClamped(part, total) ==
    IF ~IntOk(part) THEN <<>>
    ELSE <<PyMin(total, PyMax(1, IntOf(part)))>>

\* the else branch: a single page number
ParseSingle(part, total) ==
    IF ~IntOk(part) THEN <<>>
    ELSE LET page_num == IntOf(part)
         IN  IF 1 <= page_num /\ page_num <= total THEN <<page_num>> ELSE <<>>

\* one iteration of `for part in parts`
ParsePart(raw, total) ==
    LET part == StrLower(StrStrip(raw))
    IN  IF part = <<"b">> \/ part = <<"b", "l", "a", "n", "k">> THEN <<Blank>>
        ELSE IF StrContains(part, "-") THEN ParseRange(part, total)
        ELSE ParseSingle(part, total)

\* ParseParts that puts each part's pages after those of the later parts
RECURSIVE ParsePartsReversed(_, _)
ParsePartsReversed(parts, total) ==
    IF parts = <<>> THEN <<>>
    ELSE ParsePartsReversed(Tail(parts), total) \o ParsePart(Head(parts), total)

RECURSIVE ParseParts(_, _)
ParseParts(parts, total) ==
    IF parts = <<>> THEN <<>>
    ELSE ParsePart(Head(parts), total) \o ParseParts(Tail(parts), total)

parse_page_selection(text, total) == ParseParts(StrSplit(text, ","), total)

\* the exception the try block of the range branch ends with (lines 242-251):
\* the unpacking of split('-') and int() raise ValueError; "none" when it completes
RangeTryRaises(part) ==
    LET pieces == StrSplit(part, "-")
    IN  IF Len(pieces) # 2 \/ ~IntOk(pieces[1]) \/ ~IntOk(pieces[2])
        THEN "ValueError" ELSE "none"

\* the exception the try block of the single-page branch ends with (256-261)
SingleTryRaises(part) == IF ~IntOk(part) THEN "ValueError" ELSE "none"

\* ExceptValueError written as `except KeyError`
ExceptKeyError(exc) == exc = "KeyError"

\* lines 252 and 262: `except ValueError` handles the exception
ExceptValueError(exc) == exc = "ValueError"

\* one iteration of `for part in parts` lets an exception out
PartRaises(raw) ==
    LET part == StrLower(StrStrip(raw))
        exc  == IF part = <<"b">> \/ part = <<"b", "l", "a", "n", "k">> THEN "none"
                ELSE IF StrContains(part, "-") THEN RangeTryRaises(part)
                ELSE SingleTryRaises(part)
    IN  exc # "none" /\ ~ExceptValueError(exc)

\* the call parse_page_selection(text, ...) ends with an exception
ParseRaises(text) ==
    LET parts == StrSplit(text, ",")
    IN  \E i \in 1..Len(parts) : PartRaises(parts[i])

(***************************************************************************)
(* Python list objects.  A list variable of a function is modelled as      *)
(* [shared, items]: items is its content, and shared says whether it is    *)
(* the very object the caller passed in (so that writes through it are     *)
(* writes to the caller's list).                                           *)
(***************************************************************************)
\* the parameter `pages` as the callee receives it
PyArg(items) == [shared |-> TRUE, items |-> items]

\* PyListCopy that hands back the same object (padded_pages = pages)
PyListAlias(l) == l

\* pages.copy() / list(pages): a new object with the same items
PyListCopy(l) == [shared |-> FALSE, items |-> l.items]

\* l.append(x)
PyAppend(l, x) == [l EXCEPT !.items = Append(@, x)]

\* PyInsert written as l[i] = x: the entry at i is replaced (appended at the end)
PyInsertOverwrites(l, i, x) ==
    [l EXCEPT !.items = SubSeq(@, 1, i) \o <<x>> \o SubSeq(@, i + 2, Len(@))]

\* l.insert(i, x), 0 <= i <= len(l)
PyInsert(l, i, x) ==
    [l EXCEPT !.items = SubSeq(@, 1, i) \o <<x>> \o SubSeq(@, i + 1, Len(@))]

\* x in l
PyIn(x, l) == \E i \in 1..Len(l.items) : l.items[i] = x

\* l.index(x), where x in l: the 0-based index of the first occurrence
PyIndex(l, x) ==
    (CHOOSE i \in 1..Len(l.items) :
        l.items[i] = x /\ \A j \in 1..(i - 1) : l.items[j] # x) - 1

\* what the caller's list holds once the callee has run: `local` is a list
\* variable of the callee, `before` the caller's list at the call
CallerListAfter(before, local) == IF local.shared THEN local.items ELSE before

(***************************************************************************)
(* calculate_booklet_order (booklet_maker.py 268-338).                     *)
(***************************************************************************)
\* SignatureSize without the `1 if i < remainder` of line 290
SignatureSizeNoRemainder(total, k, i) == (((total \div k) + 3) \div 4) * 4

\* lines 284-293: the rounded size of signature i (0-based)
SignatureSize(total, k, i) ==
    LET pages_per_sig == total \div k
        remainder     == total % k
        size          == pages_per_sig + (IF i < remainder THEN 1 ELSE 0)
    IN  ((size + 3) \div 4) * 4

SignatureSizes(total, k) == [j \in 1..k |-> SignatureSize(total, k, j - 1)]

RECURSIVE SumSeq(_)
SumSeq(s) == IF s = <<>> THEN 0 ELSE Head(s) + SumSeq(Tail(s))

\* lines 298-299: while len(padded_pages) < total_needed: append("blank")
RECURSIVE PadLoop(_, _)
PadLoop(padded, total_needed) ==
    IF Len(padded.items) < total_needed
    THEN PadLoop(PyAppend(padded, Blank), total_needed)
    ELSE padded

\* lines 297-299
PaddedPages(pages_arg, total_needed) == PadLoop(PyListCopy(pages_arg), total_needed)

\* SheetTuple whose manga swap forgets the back side
SheetTupleFrontOnly(fl, fr, bl, br, order) ==
    IF order = "manga"
    THEN [front_left |-> fr, front_right |-> fl, back_left |-> bl, back_right |-> br]
    ELSE [front_left |-> fl, front_right |-> fr, back_left |-> bl, back_right |-> br]

\* SheetTuple without the swap of lines 329-332
SheetTupleNeverSwapped(fl, fr, bl, br, order) ==
    [front_left |-> fl, front_right |-> fr, back_left |-> bl, back_right |-> br]

\* lines 329-334: the tuple appended for one sheet
SheetTuple(fl, fr, bl, br, order) ==
    IF order = "manga"
    THEN [front_left |-> fr, front_right |-> fl, back_left |-> br, back_right |-> bl]
    ELSE [front_left |-> fl, front_right |-> fr, back_left |-> bl, back_right |-> br]

\* Sheet with the two back slots exchanged
SheetBackSwapped(sig_pages, i, order) ==
    LET n == Len(sig_pages)
    IN  SheetTuple(sig_pages[n - 1 - (2 * i) + 1], sig_pages[2 * i + 1],
                   sig_pages[n - 2 - (2 * i) + 1], sig_pages[2 * i + 1 + 1], order)

\* Sheet whose back_right repeats front_left (n - 1 - 2i for n - 2 - 2i)
SheetRepeatsFront(sig_pages, i, order) ==
    LET n == Len(sig_pages)
    IN  SheetTuple(sig_pages[n - 1 - (2 * i) + 1], sig_pages[2 * i + 1],
                   sig_pages[2 * i + 1 + 1], sig_pages[n - 1 - (2 * i) + 1], order)

\* Sheet with front_right and back_left exchanged
SheetInnerSwapped(sig_pages, i, order) ==
    LET n == Len(sig_pages)
    IN  SheetTuple(sig_pages[n - 1 - (2 * i) + 1], sig_pages[2 * i + 1 + 1],
                   sig_pages[2 * i + 1], sig_pages[n - 2 - (2 * i) + 1], order)

\* Sheet whose back_right repeats front_left (n - 1 - 2i for n - 2 - 2i)
SheetDuplicated(sig_pages, i, order) ==
    LET n == Len(sig_pages)
    IN  SheetTuple(sig_pages[n - 1 - (2 * i) + 1], sig_pages[2 * i + 1],
                   sig_pages[2 * i + 1 + 1], sig_pages[n - 1 - (2 * i) + 1], order)

\* lines 316-334: sheet i (0-based) of a signature whose pages are sig_pages
Sheet(sig_pages, i, order) ==
    LET n               == Len(sig_pages)
        front_left_idx  == n - 1 - (2 * i)
        front_right_idx == 2 * i
        back_left_idx   == 2 * i + 1
        back_right_idx  == n - 2 - (2 * i)
    IN  SheetTuple(sig_pages[front_left_idx + 1], sig_pages[front_right_idx + 1],
                   sig_pages[back_left_idx + 1], sig_pages[back_right_idx + 1], order)

\* lines 309-334: the sheets of one signature
SignatureSheets(sig_pages, order) ==
    [s \in 1..(Len(sig_pages) \div 4) |-> Sheet(sig_pages, s - 1, order)]

\* PageOffset without `page_offset += sig_size` (line 307)
PageOffsetZero(sizes, j) == 0

\* page_offset when signature j (1-based) is reached
PageOffset(sizes, j) == SumSeq(SubSeq(sizes, 1, j - 1))

\* line 306: padded_pages[page_offset:page_offset + sig_size]
SigPages(padded_items, sizes, j) ==
    SubSeq(padded_items, PageOffset(sizes, j) + 1, PageOffset(sizes, j) + sizes[j])

\* the whole call: ret is the returned plan, caller what the caller's list
\* holds afterwards; sizes and padded are the locals of the same names
CalcOrderRun(pages_list, k, order) ==
    LET sizes  == SignatureSizes(Len(pages_list), k)
        padded == PaddedPages(PyArg(pages_list), SumSeq(sizes))
    IN  [ret    |-> [j \in 1..k |-> SignatureSheets(SigPages(padded.items, sizes, j), order)],
         sizes  |-> sizes,
         padded |-> padded.items,
         caller |-> CallerListAfter(pages_list, padded)]

calculate_booklet_order(pages_list, k, order) == CalcOrderRun(pages_list, k, order).ret

(***************************************************************************)
(* SpreadPair (src/models.py 62-94) and                                    *)
(* SpreadValidator.check_spread_alignment (src/validators.py 16-75).       *)
(***************************************************************************)
\* SpreadPair.__post_init__ raises ValueError
SpreadPairRaises(a, b) == (IF a >= b THEN a - b ELSE b - a) # 1

\* SpreadPair without the swap of lines 82-83
SpreadPairAsGiven(a, b) == [left_page |-> a, right_page |-> b]

\* SpreadPair(a, b), where it does not raise: normalized so that left < right
SpreadPair(a, b) ==
    IF a > b THEN [left_page |-> b, right_page |-> a]
    ELSE [left_page |-> a, right_page |-> b]

\* lines 51-58: the loop has no break, so the position kept is that of the
\* last match; -1 stands for None
ScanPosition(pages_list, page) ==
    IF \E i \in 1..Len(pages_list) : pages_list[i] = page
    THEN (CHOOSE i \in 1..Len(pages_list) :
              pages_list[i] = page /\ \A j \in (i + 1)..Len(pages_list) : pages_list[j] # page) - 1
    ELSE -1

\* IsAligned that asks for an even position where lines 69-70 ask for an odd one
IsAlignedEven(pos_left, pos_right) ==
    \/ pos_left % 2 = 0 /\ pos_right = pos_left + 1
    \/ pos_right % 2 = 0 /\ pos_left = pos_right + 1

\* lines 68-71
IsAligned(pos_left, pos_right) ==
    \/ pos_left % 2 = 1 /\ pos_right = pos_left + 1
    \/ pos_right % 2 = 1 /\ pos_left = pos_right + 1

\* CheckOneSpread without the `continue` of lines 61-62: a spread with a page
\* missing is reported, as misaligned
CheckOneSpreadReportsAbsent(pages_list, spread) ==
    LET pos_left  == ScanPosition(pages_list, spread.left_page)
        pos_right == ScanPosition(pages_list, spread.right_page)
    IN  <<[spread |-> spread, pos_left |-> pos_left, pos_right |-> pos_right,
           is_aligned |-> pos_left # -1 /\ pos_right # -1 /\ IsAligned(pos_left, pos_right)]>>

\* lines 49-73: what one spread adds to results
CheckOneSpread(pages_list, spread) ==
    LET pos_left  == ScanPosition(pages_list, spread.left_page)
        pos_right == ScanPosition(pages_list, spread.right_page)
    IN  IF pos_left = -1 \/ pos_right = -1 THEN <<>>
        ELSE <<[spread |-> spread, pos_left |-> pos_left, pos_right |-> pos_right,
                is_aligned |-> IsAligned(pos_left, pos_right)]>>

RECURSIVE check_spread_alignment(_, _)
check_spread_alignment(pages_list, spread_objects) ==
    IF spread_objects = <<>> THEN <<>>
    ELSE CheckOneSpread(pages_list, Head(spread_objects))
             \o check_spread_alignment(pages_list, Tail(spread_objects))

(***************************************************************************)
(* BookletOptions (src/models.py 40-59).                                   *)
(***************************************************************************)
\* BookletOptionsRaises that lets num_signatures = 0 through (`< 0` for `< 1`)
BookletOptionsRaisesBelowZero(n) == n < 0 \/ n > MaxSignatures

\* BookletOptions.__post_init__ raises ValueError
BookletOptionsRaises(n) == n < MinSignatures \/ n > MaxSignatures

(***************************************************************************)
(* BookletService (src/services/booklet_service.py): the temporary files.  *)
(***************************************************************************)
\* ExceptException written as `except FileNotFoundError`
ExceptFileNotFoundError(exc) == exc = "FileNotFoundError"

\* line 150: `except Exception` handles the exception (every exception of
\* the model is an Exception)
ExceptException(exc) == exc \in {"OSError", "FileNotFoundError", "ValueError"}

\* lines 148-149: what the try block does to one tracked file; `fail` are the
\* files whose unlink() raises OSError (no permission, file in use)
UnlinkOutcome(temp_file, on_disk, fail) ==
    IF temp_file \notin on_disk THEN "missing"
    ELSE IF temp_file \in fail THEN "OSError"
    ELSE "deleted"

\* lines 146-152: the loop over self._temp_files, from the state
\* [disk, log, raised]; an exception that is not handled ends it
RECURSIVE CleanupLoop(_, _, _)
CleanupLoop(files, st, fail) ==
    IF files = <<>> THEN st
    ELSE LET temp_file == Head(files)
             outcome   == UnlinkOutcome(temp_file, st.disk, fail)
             entry     == [file |-> temp_file, outcome |-> outcome]
         IN  IF outcome = "OSError" /\ ~ExceptException(outcome)
             THEN [st EXCEPT !.log = Append(@, entry), !.raised = TRUE]
             ELSE CleanupLoop(Tail(files),
                              [st EXCEPT !.log = Append(@, entry),
                                         !.disk = IF outcome = "deleted"
                                                  THEN @ \ {temp_file} ELSE @],
                              fail)

\* CleanupRun without line 154: the files that could not be deleted stay tracked
CleanupRunKeepsFailed(tracked, on_disk, fail) ==
    LET st == CleanupLoop(tracked, [disk |-> on_disk, log |-> <<>>, raised |-> FALSE], fail)
    IN  [temp_files |-> SelectSeq(tracked, LAMBDA f : f \in fail),
         disk |-> st.disk, log |-> st.log, raised |-> st.raised]

\* lines 146-154: cleanup(); line 154 clears the list when the loop has ended
CleanupRun(tracked, on_disk, fail) ==
    LET st == CleanupLoop(tracked, [disk |-> on_disk, log |-> <<>>, raised |-> FALSE], fail)
    IN  [temp_files |-> IF st.raised THEN tracked ELSE <<>>,
         disk |-> st.disk, log |-> st.log, raised |-> st.raised]

(***************************************************************************)
(* SmartBlanksService.calculate_smart_blanks                               *)
(* (src/services/smart_blanks_service.py 15-79).  The running state is     *)
(* [result, changes]: the local list and the change descriptions.          *)
(***************************************************************************)
Change(kind, a, b) == [kind |-> kind, a |-> a, b |-> b]

\* FrontCoverStep without the test `if fc_pos > 0` of line 39
FrontCoverStepAlways(st, fc) ==
    IF fc # NoCover /\ PyIn(fc, st.result)
    THEN [result  |-> PyInsert(st.result, 0, Blank),
          changes |-> Append(st.changes, Change("front_cover", fc, 0))]
    ELSE st

\* FrontCoverStep with result.insert(fc_pos, "blank") for result.insert(0, "blank")
FrontCoverStepBeforeCover(st, fc) ==
    IF fc # NoCover /\ PyIn(fc, st.result) /\ PyIndex(st.result, fc) > 0
    THEN [result  |-> PyInsert(st.result, PyIndex(st.result, fc), Blank),
          changes |-> Append(st.changes, Change("front_cover", fc, 0))]
    ELSE st

\* lines 36-43
FrontCoverStep(st, fc) ==
    IF fc # NoCover /\ PyIn(fc, st.result) /\ PyIndex(st.result, fc) > 0
    THEN [result  |-> PyInsert(st.result, 0, Blank),
          changes |-> Append(st.changes, Change("front_cover", fc, 0))]
    ELSE st

\* lines 47-58: one iteration of the loop over spread_pairs
SpreadStep(st, pair) ==
    LET left_page  == pair[1]
        right_page == pair[2]
    IN  IF ~PyIn(left_page, st.result) \/ ~PyIn(right_page, st.result) THEN st
        ELSE LET left_pos  == PyIndex(st.result, left_page)
                 right_pos == PyIndex(st.result, right_page)
             IN  IF (left_pos - right_pos = 1 \/ right_pos - left_pos = 1)
                    /\ left_pos % 2 = 0
                 THEN [result  |-> PyInsert(st.result, left_pos, Blank),
                       changes |-> Append(st.changes, Change("spread", left_page, right_page))]
                 ELSE st

RECURSIVE SpreadLoop(_, _)
SpreadLoop(st, pairs) ==
    IF pairs = <<>> THEN st ELSE SpreadLoop(SpreadStep(st, Head(pairs)), Tail(pairs))

\* n times l.insert(i, "blank") / l.append("blank")
RECURSIVE InsertBlanks(_, _, _)
InsertBlanks(l, i, n) ==
    IF n <= 0 THEN l ELSE InsertBlanks(PyInsert(l, i, Blank), i, n - 1)

RECURSIVE AppendBlanks(_, _)
AppendBlanks(l, n) ==
    IF n <= 0 THEN l ELSE AppendBlanks(PyAppend(l, Blank), n - 1)

\* line 61
TargetCount(len) == ((len + 3) \div 4) * 4

\* lines 60-77
BackCoverStep(st, bc) ==
    LET target_count  == TargetCount(Len(st.result.items))
        blanks_needed == target_count - Len(st.result.items)
    IN  IF bc # NoCover /\ PyIn(bc, st.result)
        THEN LET bc_pos             == PyIndex(st.result, bc)
                 blanks_before_back == (target_count - 1) - bc_pos
             IN  IF blanks_before_back > 0
                 THEN [result  |-> InsertBlanks(st.result, bc_pos, blanks_before_back),
                       changes |-> Append(st.changes, Change("back_cover", blanks_before_back, 0))]
                 ELSE st
        ELSE IF blanks_needed > 0
        THEN [result  |-> AppendBlanks(st.result, blanks_needed),
              changes |-> Append(st.changes, Change("fill", blanks_needed, 0))]
        ELSE st

\* the whole call: ret is the returned (result, changes), caller what the
\* caller's list holds afterwards
SmartBlanksRun(pages_list, fc, bc, pairs) ==
    LET st0 == [result |-> PyListCopy(PyArg(pages_list)), changes |-> <<>>]
        st1 == FrontCoverStep(st0, fc)
        st2 == SpreadLoop(st1, pairs)
        st3 == BackCoverStep(st2, bc)
    IN  [ret    |-> [pages |-> st3.result.items, changes |-> st3.changes],
         caller |-> CallerListAfter(pages_list, st3.result)]

calculate_smart_blanks(pages_list, fc, bc, pairs) ==
    SmartBlanksRun(pages_list, fc, bc, pairs).ret

(***************************************************************************)
(* generate_single_booklet (booklet_maker.py 448-558), after the plan.     *)
(***************************************************************************)
RECURSIVE Flatten(_)
Flatten(ss) == IF ss = <<>> THEN <<>> ELSE Head(ss) \o Flatten(Tail(ss))

\* line 485
TotalSheets(sigs) == Len(Flatten(sigs))

\* lines 502-517: compose_sheet(left, right) of every sheet's front and back
ComposeSheets(sigs) ==
    LET all == Flatten(sigs)
    IN  [front_sheets |-> [s \in 1..Len(all) |-> <<all[s].front_left, all[s].front_right>>],
         back_sheets  |-> [s \in 1..Len(all) |-> <<all[s].back_left, all[s].back_right>>]]

(***************************************************************************)
(* The selection texts of the model.  A text is written from tokens        *)
(* [kind, lo, hi, form]; the parser sees only the characters.              *)
(***************************************************************************)
DigitChar(d) == CHOOSE c \in Digit : DigitVal(c) = d

\* the decimal digits of n >= 0
RECURSIVE Digits(_)
Digits(n) ==
    IF n < 10 THEN <<DigitChar(n)>> ELSE Digits(n \div 10) \o <<DigitChar(n % 10)>>

Tok(kind, lo, hi, form) == [kind |-> kind, lo |-> lo, hi |-> hi, form |-> form]

\* the characters of one token
TokenText(t) ==
    CASE t.kind = "blank" ->
            IF t.form = 1 THEN <<"b">> ELSE <<" ", "B", "l", "a", "n", "k", " ">>
      [] t.kind = "page" ->
            IF t.form = 1 THEN Digits(t.lo) ELSE <<" ", "+">> \o Digits(t.lo) \o <<" ">>
      [] t.kind = "range" ->
            IF t.form = 1 THEN Digits(t.lo) \o <<"-">> \o Digits(t.hi)
            ELSE <<" ">> \o Digits(t.lo) \o <<" ", "-", " ">> \o Digits(t.hi) \o <<" ">>
      [] t.kind = "bad" ->
            CASE t.form = 1 -> <<>>
              [] t.form = 2 -> <<"x">>
              [] t.form = 3 -> <<"1", "-", "2", "-", "3">>
              [] t.form = 4 -> <<"-", "2">>
              [] t.form = 5 -> <<"2", "-">>

\* the tokens joined by commas
RECURSIVE Render(_)
Render(toks) ==
    IF toks = <<>> THEN <<>>
    ELSE IF Len(toks) = 1 THEN TokenText(toks[1])
    ELSE TokenText(Head(toks)) \o <<",">> \o Render(Tail(toks))

BlankTokens == {Tok("blank", 0, 0, f) : f \in {1, 2}}
PageTokens  == {Tok("page", p, p, 1) : p \in 0..MaxNum} \cup {Tok("page", 1, 1, 2)}
RangeTokens == {Tok("range", a, b, 1) : a \in 0..MaxNum, b \in 0..MaxNum}
                   \cup {Tok("range", 1, 2, 2)}
BadTokens   == {Tok("bad", 0, 0, f) : f \in 1..5}

TokenSet == BlankTokens \cup PageTokens \cup RangeTokens \cup BadTokens

\* all lists of 1..n elements of S
SeqsUpTo(S, n) == UNION {[1..m -> S] : m \in 1..n}

\* the texts of the parser's specification, each with the document's page count
ParserInputs ==
    {[tokens |-> ts, total |-> n] : ts \in SeqsUpTo(TokenSet, MaxTokens), n \in 0..MaxTotal}

\* the examples of the parser's docstring and of the specification's section 8,
\* and a malformed token between two well-formed ones (all against a 10-page
\* document)
ExampleInputs ==
    {[tokens |-> ts, total |-> 10] : ts \in {
        <<Tok("range", 1, 5, 1)>>,
        <<Tok("blank", 0, 0, 1), Tok("range", 1, 3, 1), Tok("blank", 0, 0, 1)>>,
        <<Tok("page", 1, 1, 1), Tok("page", 3, 3, 1), Tok("range", 5, 7, 1)>>,
        <<Tok("range", 1, 20, 1)>>,
        <<Tok("range", 15, 20, 1)>>,
        <<Tok("page", 15, 15, 1)>>,
        <<Tok("page", 2, 2, 1), Tok("page", 15, 15, 1), Tok("range", 2, 4, 1)>>,
        <<Tok("page", 2, 2, 1), Tok("bad", 0, 0, 3), Tok("range", 2, 4, 1)>>,
        <<Tok("range", 1, 3, 1), Tok("bad", 0, 0, 4), Tok("bad", 0, 0, 5),
          Tok("blank", 0, 0, 1)>>}}

\* the booklet requests: "1-n", bare or between blanks, of a MaxLen-page
\* document ("1-0" selects nothing) ...
RangeRequests ==
    {[tokens |-> pre \o <<Tok("range", 1, n, 1)>> \o post, total |-> MaxLen] :
        n \in 0..MaxLen,
        pre \in {<<>>, <<Tok("blank", 0, 0, 1)>>},
        post \in {<<>>, <<Tok("blank", 0, 0, 1)>>}}

\* ... and every list of at most MaxShort pages and blanks of a MaxPage-page
\* document, written page by page (the empty text selects nothing)
ShortRequests ==
    {[tokens |-> ts, total |-> MaxPage] :
        ts \in {<<>>} \cup SeqsUpTo({Tok("blank", 0, 0, 1)}
                                     \cup {Tok("page", p, p, 1) : p \in 1..MaxPage}, MaxShort)}

\* ... and the selection "5,1,2,3" of a 5-page document (the specification's
\* front-cover example)
ExampleRequests ==
    {[tokens |-> <<Tok("page", 5, 5, 1), Tok("page", 1, 1, 1),
                   Tok("page", 2, 2, 1), Tok("page", 3, 3, 1)>>,
      total  |-> 5]}

BookletRequests == RangeRequests \cup ShortRequests \cup ExampleRequests

\* the pages of the document the user can mark
MarkedPages == 1..PyMin(total_pages, MaxMark)

\* the spread pairs the user marks (booklet_gui.py 334-343): two adjacent
\* pages, stored lower page first
AdjacentPairs ==
    {p \in MarkedPages \X MarkedPages : p[2] = p[1] + 1}

\* the list of marked pairs, in the order they were marked; marking a pair
\* again removes it, so the list holds no pair twice
SpreadLists ==
    {<<>>} \cup {<<p>> : p \in AdjacentPairs}
           \cup {<<pq[1], pq[2]>> : pq \in {x \in AdjacentPairs \X AdjacentPairs : x[1] # x[2]}}

Covers == {NoCover} \cup MarkedPages

ReadingOrders == {"western", "manga"}

(***************************************************************************)
(* The state machine.                                                      *)
(***************************************************************************)
InitFrom(inputs, args, sigs) ==
    /\ \E r \in inputs :
          /\ tokens = r.tokens
          /\ selection_str = Render(r.tokens)
          /\ total_pages = r.total
    /\ \E c \in args :
          /\ ctor_args = c
          /\ spread_pair = [left_page |-> c[1], right_page |-> c[2]]
    /\ temp_files = <<>>
    /\ disk = {}
    /\ next_file = 1
    /\ returned = [shared |-> FALSE, items |-> <<>>]
    /\ cleanup_log = <<>>
    /\ pc = "start"
    /\ pages = <<>>
    /\ num_signatures \in sigs
    /\ reading_order = "western"
    /\ signatures = <<>>
    /\ front_cover = NoCover
    /\ back_cover = NoCover
    /\ spreads = <<>>
    /\ results = <<>>
    /\ smart = [pages |-> <<>>, changes |-> <<>>]
    /\ output = [front_sheets |-> <<>>, back_sheets |-> <<>>]

Init == InitFrom(BookletRequests, {<<1, 2>>}, {1})

InitParser == InitFrom(ParserInputs \cup ExampleInputs, {<<1, 2>>}, {1})

\* a call SpreadPair(a, b): the generated __init__ has stored a and b in the
\* fields, __post_init__ is about to run
InitSpreadPair ==
    InitFrom({[tokens |-> <<>>, total |-> 0]}, (-MaxArg..MaxArg) \X (-MaxArg..MaxArg), {1})

\* the selections "1-n" of a MaxOptLen-page document
OptionRequests ==
    {[tokens |-> <<Tok("range", 1, n, 1)>>, total |-> MaxOptLen] : n \in 0..MaxOptLen}

\* a new BookletService (booklet_service.py 21-22): nothing is tracked
InitService == InitFrom({[tokens |-> <<>>, total |-> 0]}, {<<1, 2>>}, {1})

\* a call BookletOptions(num_signatures=n): the generated __init__ has stored
\* n in the field, __post_init__ is about to run
InitOptions ==
    InitFrom(OptionRequests, {<<1, 2>>},
             (MinSignatures - MaxExcess)..(MaxSignatures + MaxExcess))

\* booklet_maker.py 479 / booklet_gui.py 1202: pages = parse_page_selection(...)
ParseSelection ==
    /\ pc = "start"
    /\ IF ParseRaises(selection_str)
       THEN pc' = "raised" /\ pages' = pages
       ELSE pc' = "parsed" /\ pages' = parse_page_selection(selection_str, total_pages)
    /\ UNCHANGED <<tokens, selection_str, total_pages, num_signatures, reading_order,
                   signatures, front_cover, back_cover, spreads, results, smart, output,
                   ctor_args, spread_pair, svc_vars>>

\* booklet_maker.py 483: signatures = calculate_booklet_order(pages, ...)
CalculateOrder ==
    /\ pc = "parsed"
    /\ \E k \in 1..MaxSig, order \in ReadingOrders :
          LET run == CalcOrderRun(pages, k, order)
          IN  /\ signatures' = run.ret
              /\ pages' = run.caller
              /\ num_signatures' = k
              /\ reading_order' = order
    /\ pc' = "planned"
    /\ UNCHANGED <<tokens, selection_str, total_pages, front_cover, back_cover,
                   spreads, results, smart, output,
                   ctor_args, spread_pair, svc_vars>>

\* booklet_maker.py 485-517: the sheets are composed from the plan
GenerateSheets ==
    /\ pc = "planned"
    /\ output' = ComposeSheets(signatures)
    /\ pc' = "written"
    /\ UNCHANGED <<tokens, selection_str, total_pages, pages, num_signatures,
                   reading_order, signatures, front_cover, back_cover, spreads,
                   results, smart,
                   ctor_args, spread_pair, svc_vars>>

\* booklet_gui.py 538-541: the marked pairs become SpreadPair objects and
\* are checked against the pages
CheckSpreads ==
    /\ pc = "parsed"
    /\ \E sp \in SpreadLists :
          /\ \A i \in 1..Len(sp) : ~SpreadPairRaises(sp[i][1], sp[i][2])
          /\ spreads' = sp
          /\ results' = check_spread_alignment(
                            pages, [i \in 1..Len(sp) |-> SpreadPair(sp[i][1], sp[i][2])])
    /\ pc' = "checked"
    /\ UNCHANGED <<tokens, selection_str, total_pages, pages, num_signatures,
                   reading_order, signatures, front_cover, back_cover, smart, output,
                   ctor_args, spread_pair, svc_vars>>

\* SmartBlanksService.calculate_smart_blanks(pages, front_cover, back_cover, spread_pairs)
SmartBlanks ==
    /\ pc = "parsed"
    /\ \E fc \in Covers, bc \in Covers, sp \in SpreadLists :
          LET run == SmartBlanksRun(pages, fc, bc, sp)
          IN  /\ smart' = run.ret
              /\ pages' = run.caller
              /\ front_cover' = fc
              /\ back_cover' = bc
              /\ spreads' = sp
    /\ pc' = "smart"
    /\ UNCHANGED <<tokens, selection_str, total_pages, num_signatures, reading_order,
                   signatures, results, output,
                   ctor_args, spread_pair, svc_vars>>

\* src/models.py 73-83: SpreadPair.__post_init__
ConstructSpreadPair ==
    /\ pc = "start"
    /\ IF SpreadPairRaises(ctor_args[1], ctor_args[2])
       THEN pc' = "raised" /\ spread_pair' = spread_pair
       ELSE pc' = "constructed" /\ spread_pair' = SpreadPair(ctor_args[1], ctor_args[2])
    /\ UNCHANGED <<tokens, selection_str, total_pages, pages, num_signatures,
                   reading_order, signatures, front_cover, back_cover, spreads,
                   results, smart, output, ctor_args, svc_vars>>

\* src/models.py 54-59: BookletOptions.__post_init__
ConstructOptions ==
    /\ pc = "start"
    /\ IF BookletOptionsRaises(num_signatures)
       THEN pc' = "raised"
       ELSE pc' = "constructed"
    /\ UNCHANGED <<tokens, selection_str, total_pages, pages, num_signatures,
                   reading_order, signatures, front_cover, back_cover, spreads,
                   results, smart, output, ctor_args, spread_pair, svc_vars>>

\* booklet_service.py 60-69, booklet_maker.py 632-636 and 479-483: the
\* options' num_signatures goes through generate_booklet and
\* generate_single_booklet to calculate_booklet_order
GenerateBooklets ==
    /\ pc = "constructed"
    /\ LET parsed == parse_page_selection(selection_str, total_pages)
           run    == CalcOrderRun(parsed, num_signatures, reading_order)
       IN  /\ pages' = run.caller
           /\ signatures' = run.ret
    /\ pc' = "planned"
    /\ UNCHANGED <<tokens, selection_str, total_pages, num_signatures, reading_order,
                   front_cover, back_cover, spreads, results, smart, output,
                   ctor_args, spread_pair, svc_vars>>

\* what a BookletService action leaves alone
NoRequestChange ==
    UNCHANGED <<tokens, selection_str, total_pages, pages, num_signatures,
                reading_order, signatures, front_cover, back_cover, spreads,
                results, smart, output, ctor_args, spread_pair>>

\* booklet_service.py 89-97: _convert_cbz_to_pdf.  cbz_to_pdf
\* (booklet_maker.py 74-76) creates the temporary file first; when the
\* conversion then fails the exception leaves before line 93, the file is
\* not tracked and the caller gets ValueError
ConvertCbz ==
    /\ pc # "raised"
    /\ next_file <= MaxFiles
    /\ \E converted \in BOOLEAN :
          /\ temp_files' = IF converted THEN Append(temp_files, next_file) ELSE temp_files
          /\ pc' = IF converted THEN "converted" ELSE "convert_failed"
    /\ disk' = disk \cup {next_file}
    /\ next_file' = next_file + 1
    /\ UNCHANGED <<returned, cleanup_log>>
    /\ NoRequestChange

\* a temporary file disappears without the service (deleted by hand, by the
\* system's cleaning of its temporary directory)
DeleteOutside ==
    /\ pc # "raised"
    /\ \E f \in disk : disk' = disk \ {f}
    /\ pc' = "deleted_outside"
    /\ UNCHANGED <<temp_files, next_file, returned, cleanup_log>>
    /\ NoRequestChange

\* booklet_service.py 139-154: cleanup()
Cleanup ==
    /\ pc # "raised"
    /\ \E fail \in SUBSET {f \in disk : \E i \in 1..Len(temp_files) : temp_files[i] = f} :
          LET run == CleanupRun(temp_files, disk, fail)
          IN  /\ temp_files' = run.temp_files
              /\ disk' = run.disk
              /\ cleanup_log' = run.log
              /\ pc' = IF run.raised THEN "raised" ELSE "cleaned"
    /\ UNCHANGED <<next_file, returned>>
    /\ NoRequestChange

\* booklet_service.py 156-163: get_temp_files()
GetTempFiles ==
    /\ pc # "raised"
    /\ returned' = PyListCopy(PyArg(temp_files))
    /\ pc' = "got"
    /\ UNCHANGED <<temp_files, disk, next_file, cleanup_log>>
    /\ NoRequestChange

\* the caller of get_temp_files() changes the list it got: clear(), or
\* append() of a path of its own (0)
MutateReturned ==
    /\ pc \in {"got", "mutated"}
    /\ \E mutated \in {[returned EXCEPT !.items = <<>>], PyAppend(returned, 0)} :
          /\ Len(mutated.items) <= MaxFiles
          /\ mutated # returned
          /\ returned' = mutated
          /\ temp_files' = CallerListAfter(temp_files, mutated)
    /\ pc' = "mutated"
    /\ UNCHANGED <<disk, next_file, cleanup_log>>
    /\ NoRequestChange

Next ==
    \/ ParseSelection
    \/ CalculateOrder
    \/ GenerateSheets
    \/ CheckSpreads
    \/ SmartBlanks

\* a booklet request: parse, then plan and compose, or validate, or insert blanks
Spec == Init /\ [][Next]_vars

\* the parser alone, over the texts of ParserInputs and ExampleInputs
NextParser == ParseSelection

SpecParser == InitParser /\ [][NextParser]_vars

\* the construction of one SpreadPair
NextSpreadPair == ConstructSpreadPair

SpecSpreadPair == InitSpreadPair /\ [][NextSpreadPair]_vars

\* the construction of BookletOptions and the generation it configures
NextOptions ==
    \/ ConstructOptions
    \/ GenerateBooklets

SpecOptions == InitOptions /\ [][NextOptions]_vars

\* the life of a BookletService: conversions, cleanups and inspections
NextService ==
    \/ ConvertCbz
    \/ DeleteOutside
    \/ Cleanup
    \/ GetTempFiles
    \/ MutateReturned

SpecService == InitService /\ [][NextService]_vars

(***************************************************************************)
(* What the claims speak of, read off the state (not off the code).        *)
(***************************************************************************)
\* the number of sheets of the signatures before signature j (1-based)
RECURSIVE SheetsBefore(_, _)
SheetsBefore(sigs, j) ==
    IF j <= 1 THEN 0 ELSE SheetsBefore(sigs, j - 1) + Len(sigs[j - 1])

\* the padded selection: the selection, then blanks; x is a 0-based position
PaddedAt(x) == IF x < Len(pages) THEN pages[x + 1] ELSE Blank

\* entry x (0-based) of the local page array of signature j
LocalPage(j, x) == PaddedAt(4 * SheetsBefore(signatures, j) + x)

\* folding: the leaves of a signature are A_0 .. A_last, B_last .. B_0, with
\* A_i = (front_right, back_left) and B_i = (back_right, front_left) of
\* sheet i; the pages as they are read, recto then verso of each leaf
FoldedReading(sheets) ==
    LET m == Len(sheets)
    IN  [p \in 1..(4 * m) |->
            LET leaf  == (p - 1) \div 2
                verso == (p - 1) % 2 = 1
            IN  IF leaf < m
                THEN IF verso THEN sheets[leaf + 1].back_left
                     ELSE sheets[leaf + 1].front_right
                ELSE IF verso THEN sheets[2 * m - leaf].front_left
                     ELSE sheets[2 * m - leaf].back_right]

SheetRefs(sh) == <<sh.front_left, sh.front_right, sh.back_left, sh.back_right>>

CountIn(s, v) == Cardinality({i \in 1..Len(s) : s[i] = v})

\* s and t hold the same entries, each as many times
SameEntries(s, t) ==
    /\ Len(s) = Len(t)
    /\ \A i \in 1..Len(s) : CountIn(s, s[i]) = CountIn(t, s[i])

PlanIsMade == pc \in {"planned", "written"}

(***************************************************************************)
(* The claims.                                                             *)
(***************************************************************************)
\* C1: a selection whose length is a multiple of 4, imposed as one signature
\* in western order, reads in its original order once the sheets are nested
\* (sheet 0 outermost) and folded.
C1_FoldingReadsInOrder ==
    (PlanIsMade /\ num_signatures = 1 /\ reading_order = "western"
        /\ Len(pages) % 4 = 0)
    => FoldedReading(signatures[1]) = pages

\* the selection 1..8 of all different pages has been folded as one signature
C1_Witness ==
    /\ pc = "planned" /\ num_signatures = 1 /\ reading_order = "western"
    /\ pages = <<1, 2, 3, 4, 5, 6, 7, 8>>
    /\ Len(signatures[1]) = 2

\* C2: in western order sheet i of a signature of size n is
\* (page[n-1-2i], page[2i], page[2i+1], page[n-2-2i]) of the signature's
\* slice of the padded selection; sheets come in increasing i, signatures in
\* their original order.
C2_SlotFormula ==
    (PlanIsMade /\ reading_order = "western")
    => \A j \in 1..Len(signatures) :
          LET n == 4 * Len(signatures[j])
          IN  \A i \in 0..(Len(signatures[j]) - 1) :
                 signatures[j][i + 1] =
                    [front_left  |-> LocalPage(j, n - 1 - 2 * i),
                     front_right |-> LocalPage(j, 2 * i),
                     back_left   |-> LocalPage(j, 2 * i + 1),
                     back_right  |-> LocalPage(j, n - 2 - 2 * i)]

\* two signatures of one sheet each, from 8 different pages
C2_Witness ==
    /\ pc = "planned" /\ num_signatures = 2 /\ reading_order = "western"
    /\ pages = <<1, 2, 3, 4, 5, 6, 7, 8>>
    /\ signatures[2][1].front_left = 8

OtherOrder(order) == IF order = "manga" THEN "western" ELSE "manga"

\* C3: the manga plan is the left/right mirror of the western plan of the
\* same selection and signature count: as many signatures and sheets, and on
\* every sheet front_left/front_right and back_left/back_right exchanged.
C3_MangaMirrorsWestern ==
    PlanIsMade
    => LET other == calculate_booklet_order(pages, num_signatures,
                                            OtherOrder(reading_order))
       IN  /\ Len(other) = Len(signatures)
           /\ \A j \in 1..Len(signatures) :
                 /\ Len(other[j]) = Len(signatures[j])
                 /\ \A i \in 1..Len(signatures[j]) :
                       /\ signatures[j][i].front_left = other[j][i].front_right
                       /\ signatures[j][i].front_right = other[j][i].front_left
                       /\ signatures[j][i].back_left = other[j][i].back_right
                       /\ signatures[j][i].back_right = other[j][i].back_left

\* a manga plan of 8 different pages, whose first sheet has 1 at the front left
C3_Witness ==
    /\ pc = "planned" /\ reading_order = "manga" /\ num_signatures = 1
    /\ pages = <<1, 2, 3, 4, 5, 6, 7, 8>>
    /\ signatures[1][1].front_left = 1
    /\ signatures[1][1].back_right = 2

\* C4: the text "1-8" of a document of at least 8 pages, imposed as one
\* signature in western order, gives the sheets (8,1,2,7) and (6,3,4,5).
C4_EndToEnd ==
    (PlanIsMade /\ selection_str = <<"1", "-", "8">> /\ total_pages >= 8
        /\ num_signatures = 1 /\ reading_order = "western")
    => signatures =
         << << [front_left |-> 8, front_right |-> 1, back_left |-> 2, back_right |-> 7],
               [front_left |-> 6, front_right |-> 3, back_left |-> 4, back_right |-> 5] >> >>

\* "1-8" has been parsed and planned as one western signature
C4_Witness ==
    /\ pc = "planned" /\ selection_str = <<"1", "-", "8">> /\ total_pages >= 8
    /\ num_signatures = 1 /\ reading_order = "western"
    /\ Len(pages) = 8

\* the padded selection as far as the plan reaches
PaddedSelection == [x \in 1..(4 * TotalSheets(signatures)) |-> PaddedAt(x - 1)]

\* C5 as the specification states it: the four page references of every
\* sheet are a permutation of four consecutive entries of the padded
\* selection.
C5_SheetIsContiguousSlice ==
    PlanIsMade
    => \A j \in 1..Len(signatures) : \A i \in 1..Len(signatures[j]) :
          \E start \in 0..(Len(PaddedSelection) - 4) :
             SameEntries(SheetRefs(signatures[j][i]),
                         SubSeq(PaddedSelection, start + 1, start + 4))

\* C5, amended: the four page references of sheet i of a signature of size
\* n are a permutation of the entries at the positions 2i, 2i+1, n-2-2i,
\* n-1-2i of the signature's slice of the padded selection (two runs of two
\* consecutive entries), and the sheets of the plan together hold the
\* entries of the padded selection, each as many times: nothing is invented
\* or duplicated.
C5_SheetIsTwoPairsOfSlice ==
    PlanIsMade
    => /\ \A j \in 1..Len(signatures) :
             LET n == 4 * Len(signatures[j])
             IN  \A i \in 0..(Len(signatures[j]) - 1) :
                    SameEntries(SheetRefs(signatures[j][i + 1]),
                                <<LocalPage(j, 2 * i), LocalPage(j, 2 * i + 1),
                                  LocalPage(j, n - 2 - 2 * i), LocalPage(j, n - 1 - 2 * i)>>)
       /\ LET all == Flatten(signatures)
          IN  SameEntries(Flatten([s \in 1..Len(all) |-> SheetRefs(all[s])]),
                          PaddedSelection)

\* an outer sheet of a two-sheet signature: its pages 8,1,2,7 are not four
\* consecutive entries of the selection
C5_Witness ==
    /\ pc = "planned" /\ num_signatures = 1
    /\ pages = <<1, 2, 3, 4, 5, 6, 7, 8>>
    /\ SameEntries(SheetRefs(signatures[1][1]), <<1, 2, 7, 8>>)

\* C6: the core never mutates its input: whatever is called on the parsed
\* selection (calculate_booklet_order, check_spread_alignment,
\* calculate_smart_blanks), the caller's list is afterwards what it was.
C6_CoreNeverMutatesInput == [][pc = "parsed" => pages' = pages]_vars

\* the planner has padded a selection of 6 with two blanks, and the caller
\* still holds 6 entries
C6_Witness ==
    /\ pc = "planned" /\ num_signatures = 1
    /\ Len(pages) = 6
    /\ TotalSheets(signatures) = 2

\* C7: an empty selection is rejected: planning never returns a plan with
\* zero sheets, and generation never goes on to compose zero sheets.
C7_EmptySelectionRejected ==
    /\ pc = "planned" => TotalSheets(signatures) >= 1
    /\ pc = "written" => Len(output.front_sheets) >= 1

(***************************************************************************)
(* The parser's claims: what each token of the text stands for.            *)
(***************************************************************************)
\* lo .. hi as a list
Interval(lo, hi) == IF hi < lo THEN <<>> ELSE [i \in 1..(hi - lo + 1) |-> lo + i - 1]

Clamp(p) == IF p < 1 THEN 1 ELSE IF p > total_pages THEN total_pages ELSE p

InRange(p) == 1 <= p /\ p <= total_pages

\* what the parser returns for the token alone
AloneParse(t) == parse_page_selection(TokenText(t), total_pages)

\* C8's expansion of a blank, an in-range page, an in-range ascending range
C8_Expansion(t) ==
    CASE t.kind = "blank" -> <<Blank>>
      [] t.kind = "page" /\ InRange(t.lo) -> <<t.lo>>
      [] t.kind = "range" /\ InRange(t.lo) /\ InRange(t.hi) /\ t.lo <= t.hi ->
            Interval(t.lo, t.hi)
      [] OTHER -> AloneParse(t)

RECURSIVE C8_Concat(_)
C8_Concat(toks) ==
    IF toks = <<>> THEN <<>> ELSE C8_Expansion(Head(toks)) \o C8_Concat(Tail(toks))

\* C8: the parser's output is the concatenation, in the order of the text, of
\* the expansions of its tokens: one Blank for b/blank, [p] for an in-range
\* page, [p1..p2] for an in-range ascending range; a page occurring in
\* several tokens occurs once per token.  "1-5" gives [1,2,3,4,5], "b,1-3,b"
\* gives [Blank,1,2,3,Blank], "1,3,5-7" gives [1,3,5,6,7] (10 pages).
C8_ParseIsConcatenation ==
    pc = "parsed"
    => /\ pages = C8_Concat(tokens)
       /\ (total_pages = 10 /\ selection_str = <<"1", "-", "5">>)
             => pages = <<1, 2, 3, 4, 5>>
       /\ (total_pages = 10 /\ selection_str = <<"b", ",", "1", "-", "3", ",", "b">>)
             => pages = <<Blank, 1, 2, 3, Blank>>
       /\ (total_pages = 10 /\ selection_str = <<"1", ",", "3", ",", "5", "-", "7">>)
             => pages = <<1, 3, 5, 6, 7>>

\* a page and a range holding it, in that order: the page is kept twice
C8_Witness ==
    /\ pc = "parsed" /\ total_pages = 2
    /\ selection_str = <<"2", ",", "1", "-", "2">>
    /\ pages = <<2, 1, 2>>

\* C9's expansion of an ascending range with an endpoint outside 1..total
C9_Expansion(t) ==
    IF t.kind = "range" /\ t.lo <= t.hi /\ (~InRange(t.lo) \/ ~InRange(t.hi))
    THEN Interval(Clamp(t.lo), Clamp(t.hi))
    ELSE AloneParse(t)

RECURSIVE C9_Concat(_)
C9_Concat(toks) ==
    IF toks = <<>> THEN <<>> ELSE C9_Expansion(Head(toks)) \o C9_Concat(Tail(toks))

\* C9: for total_pages >= 1, an ascending range with an endpoint outside
\* 1..total_pages has both endpoints clamped into 1..total_pages and its
\* clamped, non-empty range emitted; it is never dropped ("1-20" of 10 pages
\* gives 1..10, and a range wholly above the document still gives its
\* clamped range).
C9_OutOfRangeRangeIsClamped ==
    (pc = "parsed" /\ total_pages >= 1)
    => /\ pages = C9_Concat(tokens)
       /\ \A i \in 1..Len(tokens) :
             (tokens[i].kind = "range" /\ tokens[i].lo <= tokens[i].hi)
             => AloneParse(tokens[i]) # <<>>

\* C10's expansion of a single page outside 1..total: nothing
C10_Expansion(t) ==
    IF t.kind = "page" /\ ~InRange(t.lo) THEN <<>> ELSE AloneParse(t)

RECURSIVE C10_Concat(_)
C10_Concat(toks) ==
    IF toks = <<>> THEN <<>> ELSE C10_Expansion(Head(toks)) \o C10_Concat(Tail(toks))

\* C10: a single page below 1 or above total_pages contributes nothing (it
\* is not clamped), and the other tokens of the text expand as they do
\* without it; "15" of 10 pages gives [].
C10_OutOfRangePageIsDropped ==
    pc = "parsed"
    => /\ pages = C10_Concat(tokens)
       /\ (total_pages = 10 /\ selection_str = <<"1", "5">>) => pages = <<>>

\* "2,15,2-4" of 10 pages: the 15 is gone, its neighbours are whole
C10_Witness ==
    /\ pc = "parsed" /\ total_pages = 10
    /\ selection_str = <<"2", ",", "1", "5", ",", "2", "-", "4">>
    /\ pages = <<2, 2, 3, 4>>

(***************************************************************************)
(* C11.  Malformed tokens.                                                 *)
(***************************************************************************)
\* the tokens that are not malformed, in their order
RECURSIVE WellFormed(_)
WellFormed(toks) ==
    IF toks = <<>> THEN <<>>
    ELSE IF Head(toks).kind = "bad" THEN WellFormed(Tail(toks))
    ELSE <<Head(toks)>> \o WellFormed(Tail(toks))

\* C11: parse_page_selection never raises for malformed input: whatever the
\* text (empty tokens, non-numeric tokens, tokens with several '-', "-2",
\* "2-"), the call returns a list; a malformed token alone yields nothing, and
\* the list returned is the one returned for the text without the malformed
\* tokens.
C11_MalformedTokensAreSkipped ==
    /\ pc # "raised"
    /\ pc = "parsed" =>
          /\ \A i \in 1..Len(tokens) :
                tokens[i].kind = "bad" => AloneParse(tokens[i]) = <<>>
          /\ pages = parse_page_selection(Render(WellFormed(tokens)), total_pages)

\* a malformed token between two tokens that both select pages has been parsed
C11_Witness ==
    /\ pc = "parsed"
    /\ \E i \in 2..(Len(tokens) - 1) :
          /\ tokens[i].kind = "bad"
          /\ AloneParse(tokens[i - 1]) # <<>>
          /\ AloneParse(tokens[i + 1]) # <<>>
    /\ pages = <<2, 2, 3, 4>>

(***************************************************************************)
(* C12.  What a parsed selection holds.                                    *)
(***************************************************************************)
\* C12: every element returned by parse_page_selection(text, total_pages) is
\* the blank marker or an integer n with 1 <= n <= total_pages, for every text
\* and every total_pages >= 0.
C12_ElementsAreBlankOrSourcePage ==
    pc = "parsed" =>
        \A i \in 1..Len(pages) :
            pages[i] = Blank \/ (pages[i] \in Int /\ 1 <= pages[i] /\ pages[i] <= total_pages)

\* a text with a range that ends beyond the document (or starts at 0) has
\* been parsed and selects pages
C12_Witness ==
    /\ pc = "parsed"
    /\ \E i \in 1..Len(tokens) :
          /\ tokens[i].kind = "range"
          /\ tokens[i].hi > total_pages \/ tokens[i].lo < 1
    /\ \E i \in 1..Len(pages) : pages[i] = total_pages

(***************************************************************************)
(* C13.  SpreadPair construction.                                          *)
(***************************************************************************)
AbsDiff(a, b) == IF a >= b THEN a - b ELSE b - a

\* C13: for all integers a, b, SpreadPair(a, b) is rejected with an error
\* when |a - b| # 1 and otherwise yields a pair with left_page = min(a, b)
\* and right_page = max(a, b), so that right_page = left_page + 1;
\* SpreadPair(3, 2) gives left 2 and right 3, SpreadPair(1, 5) raises.
C13_SpreadPairConstruction ==
    LET a == ctor_args[1]
        b == ctor_args[2]
    IN  /\ pc = "raised" => AbsDiff(a, b) # 1
        /\ pc = "constructed" =>
              /\ AbsDiff(a, b) = 1
              /\ spread_pair.left_page = (IF a <= b THEN a ELSE b)
              /\ spread_pair.right_page = (IF a <= b THEN b ELSE a)
              /\ spread_pair.right_page = spread_pair.left_page + 1
        /\ (pc # "start" /\ ctor_args = <<3, 2>>) =>
              pc = "constructed" /\ spread_pair = [left_page |-> 2, right_page |-> 3]
        /\ (pc # "start" /\ ctor_args = <<1, 5>>) => pc = "raised"

\* SpreadPair(3, 2) has been constructed and its fields exchanged
C13_Witness ==
    /\ pc = "constructed"
    /\ ctor_args = <<3, 2>>
    /\ spread_pair.left_page = 2

(***************************************************************************)
(* C14-C16.  check_spread_alignment.                                       *)
(***************************************************************************)
\* page occurs in the list
Occurs(page, list) == \E i \in 1..Len(list) : list[i] = page

\* the 0-based index of the first occurrence of page in list
FirstIndex(page, list) ==
    (CHOOSE i \in 1..Len(list) : list[i] = page /\ \A j \in 1..(i - 1) : list[j] # page) - 1

\* the pair of positions sits at (1,2), (3,4), (5,6), ...
OddThenNext(p, q) ==
    LET lower  == IF p <= q THEN p ELSE q
        higher == IF p <= q THEN q ELSE p
    IN  lower % 2 = 1 /\ higher = lower + 1

\* C14: for every spread reported by check_spread_alignment, with positions
\* pos_left and pos_right, is_aligned is true if and only if the lower of the
\* two positions is odd (0-based) and the higher is the lower + 1; on
\* [1,2,3,4], SpreadPair(2,3) is aligned at (1,2) and SpreadPair(1,2) is
\* misaligned at (0,1).
C14_AlignedIffOddThenNext ==
    pc = "checked" =>
        /\ \A i \in 1..Len(results) :
              results[i].is_aligned <=> OddThenNext(results[i].pos_left, results[i].pos_right)
        /\ (pages = <<1, 2, 3, 4>> /\ spreads = << <<2, 3>> >>) =>
              results = <<[spread |-> [left_page |-> 2, right_page |-> 3],
                           pos_left |-> 1, pos_right |-> 2, is_aligned |-> TRUE]>>
        /\ (pages = <<1, 2, 3, 4>> /\ spreads = << <<1, 2>> >>) =>
              results = <<[spread |-> [left_page |-> 1, right_page |-> 2],
                           pos_left |-> 0, pos_right |-> 1, is_aligned |-> FALSE]>>

\* [1,2,3,4] has been checked for the spread (2,3), reported aligned
C14_Witness ==
    /\ pc = "checked"
    /\ pages = <<1, 2, 3, 4>>
    /\ spreads = << <<2, 3>> >>
    /\ Len(results) = 1
    /\ results[1].is_aligned

\* C15: check_spread_alignment uses first occurrences: for every pages list
\* (duplicates allowed) and every spread reported, pos_left and pos_right are
\* the 0-based indices of the first occurrence of left_page and of right_page
\* in pages, and is_aligned is computed from those indices.
C15_FirstOccurrences ==
    pc = "checked" =>
        \A i \in 1..Len(results) :
            LET first_left  == FirstIndex(results[i].spread.left_page, pages)
                first_right == FirstIndex(results[i].spread.right_page, pages)
            IN  /\ results[i].pos_left = first_left
                /\ results[i].pos_right = first_right
                /\ results[i].is_aligned <=> OddThenNext(first_left, first_right)

\* the spreads of the list whose two pages both occur in the selection
RECURSIVE FoundSpreads(_)
FoundSpreads(sp) ==
    IF sp = <<>> THEN <<>>
    ELSE IF Occurs(Head(sp)[1], pages) /\ Occurs(Head(sp)[2], pages)
    THEN <<Head(sp)>> \o FoundSpreads(Tail(sp))
    ELSE FoundSpreads(Tail(sp))

\* C16: check_spread_alignment emits exactly one result per spread whose two
\* pages both occur in pages, in the order of the spread list, and nothing
\* for a spread with a page absent; the result is at most as long as the
\* spread list.
C16_OneResultPerFoundSpread ==
    pc = "checked" =>
        LET found == FoundSpreads(spreads)
        IN  /\ Len(results) = Len(found)
            /\ Len(results) <= Len(spreads)
            /\ \A i \in 1..Len(results) :
                  /\ results[i].spread.left_page = found[i][1]
                  /\ results[i].spread.right_page = found[i][2]

\* two spreads have been checked, the first with a page that is not
\* selected, the second found
C16_Witness ==
    /\ pc = "checked"
    /\ Len(spreads) = 2
    /\ ~Occurs(spreads[1][2], pages)
    /\ Len(results) = 1
    /\ results[1].spread.left_page = spreads[2][1]

(***************************************************************************)
(* C17-C20.  calculate_smart_blanks.                                       *)
(***************************************************************************)
\* calculate_smart_blanks has run on [5,1,2,3] with front cover 5, no back
\* cover and no spreads
FrontCoverExample ==
    /\ pc = "smart"
    /\ pages = <<5, 1, 2, 3>>
    /\ front_cover = 5
    /\ back_cover = NoCover
    /\ spreads = <<>>

NoDuplicatePages(list) ==
    \A i, j \in 1..Len(list) : (i # j /\ list[i] # Blank) => list[i] # list[j]

\* C18: calculate_smart_blanks fixes spread misalignment: for every pages
\* list without duplicate page numbers, every cover choice and every list of
\* spread pairs, each pair whose two pages are adjacent in the returned
\* selection is reported aligned by check_spread_alignment applied to the
\* returned selection, whatever the order of the pairs.
C18_AdjacentSpreadsEndAligned ==
    (pc = "smart" /\ NoDuplicatePages(pages)) =>
        \A i \in 1..Len(spreads) :
            LET left_page  == spreads[i][1]
                right_page == spreads[i][2]
            IN  (/\ Occurs(left_page, smart.pages)
                 /\ Occurs(right_page, smart.pages)
                 /\ AbsDiff(FirstIndex(left_page, smart.pages),
                            FirstIndex(right_page, smart.pages)) = 1)
                => LET report == check_spread_alignment(
                                     smart.pages, <<SpreadPair(left_page, right_page)>>)
                   IN  Len(report) = 1 /\ report[1].is_aligned

\* the working list of calculate_smart_blanks after the front-cover and the
\* spread steps
WorkingList == SpreadLoop(FrontCoverStep([result |-> PyListCopy(PyArg(pages)), changes |-> <<>>],
                                         front_cover), spreads).result.items

\* ceil(n / 4) * 4: the least multiple of 4 that is at least n
CeilToFour(n) == CHOOSE t \in n..(n + 3) : t % 4 = 0

\* n blanks
Blanks(n) == [i \in 1..n |-> Blank]

\* C19: calculate_smart_blanks pads to a signature-multiple length: for every
\* input the length of the returned selection is a multiple of 4; with no
\* back cover it is target = ceil(L/4)*4, L the length after the front-cover
\* and spread steps, reached by appending target - L blanks.
C19_LengthIsMultipleOfFour ==
    pc = "smart" =>
        /\ Len(smart.pages) % 4 = 0
        /\ back_cover = NoCover =>
              LET target == CeilToFour(Len(WorkingList))
              IN  /\ Len(smart.pages) = target
                  /\ smart.pages = WorkingList \o Blanks(target - Len(WorkingList))

\* C20: whenever back_cover occurs in the working list, after the call the
\* back cover sits at index target - 1 of the returned selection (target =
\* ceil(L/4)*4, L the length after the front-cover and spread steps), that
\* index is the last slot of the returned selection, and the blanks added
\* were inserted immediately before the back cover's previous position.
C20_BackCoverIsLast ==
    (pc = "smart" /\ back_cover # NoCover /\ Occurs(back_cover, WorkingList)) =>
        LET target == CeilToFour(Len(WorkingList))
            bc_pos == FirstIndex(back_cover, WorkingList)
        IN  /\ Len(smart.pages) >= target
            /\ smart.pages[target] = back_cover
            /\ Len(smart.pages) = target
            /\ smart.pages = SubSeq(WorkingList, 1, bc_pos)
                                 \o Blanks(target - 1 - bc_pos)
                                 \o SubSeq(WorkingList, bc_pos + 1, Len(WorkingList))

(***************************************************************************)
(* C21.  BookletOptions construction.                                      *)
(***************************************************************************)
\* C21: BookletOptions construction rejects every num_signatures outside
\* [1,10] with an error and accepts every num_signatures in 1..10; so the
\* num_signatures that reaches the generation is in 1..10, never 0, and the
\* planner makes that many signatures.
C21_OptionsValidateSignatures ==
    /\ pc = "raised" => ~(1 <= num_signatures /\ num_signatures <= 10)
    /\ pc \in {"constructed", "planned"} => (1 <= num_signatures /\ num_signatures <= 10)
    /\ pc = "planned" => Len(signatures) = num_signatures

\* options with the greatest accepted num_signatures have been built and
\* have configured a generation
C21_Witness ==
    /\ pc = "planned"
    /\ num_signatures = 10
    /\ Len(pages) = 12

(***************************************************************************)
(* C22.  The temporary files of BookletService.                            *)
(***************************************************************************)
\* C22: after any sequence of CBZ conversions and cleanup() calls,
\* immediately after a cleanup() the tracked list is empty and cleanup() has
\* not raised, also when a tracked file was already missing or could not be
\* deleted; and get_temp_files() returns a copy: changing the returned list
\* never changes the tracked list.
C22_CleanupEmptiesAndGetCopies ==
    /\ [](pc # "raised")
    /\ [](pc = "cleaned" => temp_files = <<>>)
    /\ [][pc' = "mutated" => temp_files' = temp_files]_vars

\* a cleanup() has just met a tracked file that was missing and one that
\* could not be deleted
C22_Witness ==
    /\ pc = "cleaned"
    /\ \E i \in 1..Len(cleanup_log) : cleanup_log[i].outcome = "missing"
    /\ \E i \in 1..Len(cleanup_log) : cleanup_log[i].outcome = "OSError"

(***************************************************************************)
(* C23, C24.  Sizes, padding and slices of the plan.                       *)
(***************************************************************************)
\* the j-th (0-based) group of an even distribution of total over k
GroupSize(total, k, j) == (total \div k) + (IF j < total % k THEN 1 ELSE 0)

\* ... rounded up to a multiple of 4
RoundedSize(total, k, j) == CeilToFour(GroupSize(total, k, j))

\* the sum of the rounded sizes of the groups 0..j-1
RECURSIVE RoundedBefore(_, _, _)
RoundedBefore(total, k, j) ==
    IF j <= 0 THEN 0
    ELSE RoundedBefore(total, k, j - 1) + RoundedSize(total, k, j - 1)

\* C23: for every selection length total >= 0 and every k = num_signatures
\* >= 1 the plan has exactly k signatures, and signature j (0-based) has size
\* ceil4(total div k + (1 if j < total mod k else 0)), each rounded on its
\* own: every size is a multiple of 4 and signature j has size/4 sheets.
C23_SignatureSizes ==
    PlanIsMade =>
        LET total == Len(pages)
            sizes == CalcOrderRun(pages, num_signatures, reading_order).sizes
        IN  /\ Len(signatures) = num_signatures
            /\ Len(sizes) = num_signatures
            /\ \A j \in 0..(num_signatures - 1) :
                  /\ sizes[j + 1] = RoundedSize(total, num_signatures, j)
                  /\ sizes[j + 1] % 4 = 0
                  /\ 4 * Len(signatures[j + 1]) = sizes[j + 1]

\* nine pages in two signatures: the first gets five and is rounded to 8,
\* the second four
C23_Witness ==
    /\ pc = "planned"
    /\ Len(pages) = 9
    /\ num_signatures = 2
    /\ Len(signatures[1]) = 2
    /\ Len(signatures[2]) = 1

\* the entries of the sheets of signature j (1-based) of the plan
SignatureEntries(j) ==
    Flatten([i \in 1..Len(signatures[j]) |-> SheetRefs(signatures[j][i])])

\* C24: the padded selection is the input selection followed only by
\* blanks, its length is the sum of the rounded signature sizes, and the
\* signatures' local page arrays are consecutive contiguous slices of it in
\* order (signature j starts at the sum of the sizes of the signatures
\* before it), whose concatenation is the whole padded selection.
C24_PaddingAndSlices ==
    PlanIsMade =>
        LET total  == Len(pages)
            k      == num_signatures
            run    == CalcOrderRun(pages, k, reading_order)
            needed == RoundedBefore(total, k, k)
            slice(j) == SubSeq(run.padded, RoundedBefore(total, k, j - 1) + 1,
                               RoundedBefore(total, k, j))
        IN  /\ Len(run.padded) = needed
            /\ run.padded = pages \o Blanks(needed - total)
            /\ \A j \in 1..k :
                  /\ SigPages(run.padded, run.sizes, j) = slice(j)
                  /\ SameEntries(SignatureEntries(j), slice(j))
            /\ Flatten([j \in 1..k |-> SigPages(run.padded, run.sizes, j)]) = run.padded

\* six entries in two signatures: the second signature holds the last two
\* entries and two padding blanks
C24_Witness ==
    /\ pc = "planned"
    /\ pages = <<1, 2, 3, 4, 5, 6>>
    /\ num_signatures = 2
    /\ SameEntries(SignatureEntries(2), <<5, 6, Blank, Blank>>)

(***************************************************************************)
(* C25, C26.  The steps of calculate_smart_blanks.                         *)
(***************************************************************************)
\* the working list and the changes when calculate_smart_blanks starts
SmartStart == [result |-> PyListCopy(PyArg(pages)), changes |-> <<>>]

\* the front cover is set and its first occurrence is at an index > 0
FrontCoverNotFirst ==
    /\ front_cover # NoCover
    /\ Occurs(front_cover, pages)
    /\ FirstIndex(front_cover, pages) > 0

\* the changes of the given kind
ChangesOfKind(changes, kind) == SelectSeq(changes, LAMBDA c : c.kind = kind)

RealignPair(list, pair) ==
    IF ~Occurs(pair[1], list) \/ ~Occurs(pair[2], list) THEN list
    ELSE LET left_pos  == FirstIndex(pair[1], list)
             right_pos == FirstIndex(pair[2], list)
             lower     == IF left_pos <= right_pos THEN left_pos ELSE right_pos
         IN  IF AbsDiff(left_pos, right_pos) = 1 /\ lower % 2 = 0
             THEN SubSeq(list, 1, lower) \o <<Blank>> \o SubSeq(list, lower + 1, Len(list))
             ELSE list

\* the pairs taken in input order, each against the list as it then is
RECURSIVE RealignPairs(_, _)
RealignPairs(list, pairs) ==
    IF pairs = <<>> THEN list
    ELSE RealignPairs(RealignPair(list, Head(pairs)), Tail(pairs))

\* C26: the spread step evaluates the pairs in input order against the
\* current working list; for each pair with both pages present at adjacent
\* indices, if the lower-index page of the two sits at an even 0-based
\* position exactly one blank is inserted immediately before it, otherwise
\* nothing; absent or non-adjacent pairs cause no insertion.
C26_SpreadStepShiftsLowerPage ==
    pc = "smart" =>
        LET before == FrontCoverStep(SmartStart, front_cover).result.items
            after  == RealignPairs(before, spreads)
        IN  /\ WorkingList = after
            /\ back_cover = NoCover =>
                  smart.pages = after \o Blanks(CeilToFour(Len(after)) - Len(after))

(***************************************************************************)
(* C27, C28.  Positions and slots.                                         *)
(***************************************************************************)
\* the plan of the selection's positions: calculate_booklet_order applied to
\* the list 1, 2, ..., len(pages), where entry p stands for the 0-based
\* position p - 1 (the padding positions come out as blanks)
PositionPlan ==
    calculate_booklet_order([x \in 1..Len(pages) |-> x], num_signatures, reading_order)

\* the entry a position label stands for
EntryAt(label) == IF label = Blank THEN Blank ELSE pages[label]

\* the plan of the state is the plan of the positions, entry for position
PlanFollowsPositions ==
    /\ Len(PositionPlan) = Len(signatures)
    /\ \A j \in 1..Len(signatures) :
          /\ Len(PositionPlan[j]) = Len(signatures[j])
          /\ \A i \in 1..Len(signatures[j]) :
                signatures[j][i] =
                    [front_left  |-> EntryAt(PositionPlan[j][i].front_left),
                     front_right |-> EntryAt(PositionPlan[j][i].front_right),
                     back_left   |-> EntryAt(PositionPlan[j][i].back_left),
                     back_right  |-> EntryAt(PositionPlan[j][i].back_right)]

\* the position behind label p is odd / even, locally in signature j and
\* globally
OddPosition(p, j) ==
    p # Blank => ((p - 1) % 2 = 1 /\ (p - 1 - 4 * SheetsBefore(signatures, j)) % 2 = 1)
EvenPosition(p, j) ==
    p # Blank => ((p - 1) % 2 = 0 /\ (p - 1 - 4 * SheetsBefore(signatures, j)) % 2 = 0)

\* C27: in western order every page at an odd 0-based local position of its
\* signature is placed in a left slot (front_left or back_left) and every
\* page at an even local position in a right slot; in manga order it is the
\* reverse; and the local parity is the parity of the global position.
C27_LeftRightParity ==
    PlanIsMade =>
        /\ PlanFollowsPositions
        /\ \A j \in 1..Len(PositionPlan) : \A i \in 1..Len(PositionPlan[j]) :
              LET sh == PositionPlan[j][i]
              IN  IF reading_order = "western"
                  THEN /\ OddPosition(sh.front_left, j) /\ OddPosition(sh.back_left, j)
                       /\ EvenPosition(sh.front_right, j) /\ EvenPosition(sh.back_right, j)
                  ELSE /\ EvenPosition(sh.front_left, j) /\ EvenPosition(sh.back_left, j)
                       /\ OddPosition(sh.front_right, j) /\ OddPosition(sh.back_right, j)

\* a manga plan of two signatures: the last page, at the odd position 7, is
\* in a right slot
C27_Witness ==
    /\ pc = "planned"
    /\ reading_order = "manga"
    /\ num_signatures = 2
    /\ pages = <<1, 2, 3, 4, 5, 6, 7, 8>>
    /\ signatures[2][1].front_right = 8

\* the position labels of all the slots of the plan, sheet after sheet
PlannedLabels ==
    LET all == Flatten(PositionPlan)
    IN  Flatten([s \in 1..Len(all) |-> SheetRefs(all[s])])

\* the slot indices of a signature of size n
SlotIndices(n) ==
    UNION {{n - 1 - 2 * i, 2 * i, 2 * i + 1, n - 2 - 2 * i} : i \in 0..((n \div 4) - 1)}

\* C28: every position is printed exactly once: the mapping from
\* (signature, sheet, slot) to positions of the padded selection is a
\* bijection onto all its positions, for every selection, num_signatures and
\* reading order; within a signature of size n the slot indices n-1-2i, 2i,
\* 2i+1, n-2-2i (0 <= i < n/4) are pairwise distinct and cover 0..n-1.
C28_EveryPositionOnce ==
    PlanIsMade =>
        /\ PlanFollowsPositions
        /\ Len(PlannedLabels) = 4 * TotalSheets(signatures)
        /\ \A p \in 1..Len(pages) : CountIn(PlannedLabels, p) = 1
        /\ CountIn(PlannedLabels, Blank) = 4 * TotalSheets(signatures) - Len(pages)
        /\ \A j \in 1..Len(signatures) :
              LET n == 4 * Len(signatures[j])
              IN  /\ SlotIndices(n) = 0..(n - 1)
                  /\ SameEntries(SignatureEntries(j),
                                 [x \in 1..n |-> LocalPage(j, x - 1)])

\* twelve pages in three signatures, each page in one slot
C28_Witness ==
    /\ pc = "planned"
    /\ reading_order = "western"
    /\ num_signatures = 3
    /\ Len(pages) = 12
    /\ NoDuplicatePages(pages)
    /\ signatures[3][1].front_left = pages[12]

(***************************************************************************)
(* C29.  Content of the signatures.                                        *)
(***************************************************************************)
\* the number of entries of the selection before the j-th (0-based) group
RECURSIVE GroupStart(_, _, _)
GroupStart(total, k, j) ==
    IF j <= 0 THEN 0 ELSE GroupStart(total, k, j - 1) + GroupSize(total, k, j - 1)

\* the j-th (0-based) evenly distributed group of the selection
Group(j) ==
    SubSeq(pages, GroupStart(Len(pages), num_signatures, j) + 1,
           GroupStart(Len(pages), num_signatures, j + 1))

\* the number of positions of the original selection signature j (1-based) holds
OriginalsIn(j) ==
    LET labels == Flatten([i \in 1..Len(PositionPlan[j]) |-> SheetRefs(PositionPlan[j][i])])
    IN  Cardinality({x \in 1..Len(labels) : labels[x] # Blank})

\* C29: signature j of the plan holds exactly the j-th evenly distributed
\* group of the selection (total div k entries, one more for the first
\* total mod k signatures) followed by its own padding blanks; so the
\* numbers of original positions held by two signatures differ by at most
\* one, and when total >= k no signature consists only of padding.
C29_EvenDistribution ==
    PlanIsMade =>
        LET total == Len(pages)
            k     == num_signatures
        IN  /\ \A j \in 1..k :
                  LET group == Group(j - 1)
                  IN  /\ SameEntries(SignatureEntries(j),
                                     group \o Blanks(4 * Len(signatures[j]) - Len(group)))
                      /\ OriginalsIn(j) = Len(group)
            /\ \A j1, j2 \in 1..k : OriginalsIn(j1) - OriginalsIn(j2) <= 1
            /\ total >= k => \A j \in 1..k : OriginalsIn(j) > 0

(***************************************************************************)
(* C30.  calculate_smart_blanks only adds blanks.                          *)
(***************************************************************************)
\* the list without its blanks
RECURSIVE PagesOnly(_)
PagesOnly(list) ==
    IF list = <<>> THEN <<>>
    ELSE IF Head(list) = Blank THEN PagesOnly(Tail(list))
    ELSE <<Head(list)>> \o PagesOnly(Tail(list))

\* sub is a subsequence of list: its entries occur in list in the same order
RECURSIVE IsSubsequence(_, _)
IsSubsequence(sub, list) ==
    IF sub = <<>> THEN TRUE
    ELSE IF list = <<>> THEN FALSE
    ELSE IF Head(sub) = Head(list) THEN IsSubsequence(Tail(sub), Tail(list))
    ELSE IsSubsequence(sub, Tail(list))

\* C30: calculate_smart_blanks only ever adds blanks: the returned selection
\* contains the input list as a subsequence in the same relative order, every
\* additional element is the blank marker, no page number is removed,
\* duplicated or reordered, and the list of change descriptions is non-empty
\* exactly when the returned selection is longer than the input.
C30_OnlyBlanksAreAdded ==
    pc = "smart" =>
        /\ IsSubsequence(pages, smart.pages)
        /\ PagesOnly(smart.pages) = PagesOnly(pages)
        /\ CountIn(smart.pages, Blank) - CountIn(pages, Blank) = Len(smart.pages) - Len(pages)
        /\ Len(smart.pages) >= Len(pages)
        /\ smart.changes # <<>> <=> Len(smart.pages) > Len(pages)

\* a call that inserted a blank for the front cover, one for a spread and
\* blanks before the back cover, around a selection that had a blank of its own
C30_Witness ==
    /\ pc = "smart"
    /\ CountIn(pages, Blank) > 0
    /\ ChangesOfKind(smart.changes, "front_cover") # <<>>
    /\ ChangesOfKind(smart.changes, "spread") # <<>>
    /\ ChangesOfKind(smart.changes, "back_cover") # <<>>

=============================================================================
